---- MODULE Spec2Model ----
(***************************************************************************)
(* Model of thumbscache_rs (src/src/lib.rs): Thumbscache::read, the header *)
(* resolver and the entry loop, over an in-memory byte buffer.             *)
(*                                                                         *)
(* Bytes are 0..255.  A u32 / u64 is kept as 16-bit limbs, so that 32-bit  *)
(* arithmetic keeps its width: the sums and differences of the code are    *)
(* computed limb by limb with carry / borrow, and report their overflow.   *)
(***************************************************************************)
EXTENDS Integers, Sequences, FiniteSets

(***************************************************************************)
(* Bounds of the explored inputs.                                          *)
(***************************************************************************)
MaxRecords == 2
MaxCut == 2

(***************************************************************************)
(* Fixed-width unsigned integers.  A u32 is two 16-bit limbs <<low, high>>  *)
(* and a u64 four, least significant first, so that no arithmetic of the   *)
(* model leaves the integers the checker computes with.                    *)
(***************************************************************************)
RECURSIVE Digits(_, _)
\* n < 2^31 as w little-endian bytes
Digits(n, w) == IF w = 0 THEN <<>> ELSE <<n % 256>> \o Digits(n \div 256, w - 1)

Zeros(n) == [i \in 1..n |-> 0]

\* the u32 of a number below 2^31
U32(n) == <<n % 65536, n \div 65536>>

\* u32::from_ne_bytes on a little-endian host
FromBytes32(bs) == <<bs[1] + 256 * bs[2], bs[3] + 256 * bs[4]>>

\* u64::from_ne_bytes on a little-endian host
FromBytes64(bs) ==
    <<bs[1] + 256 * bs[2], bs[3] + 256 * bs[4], bs[5] + 256 * bs[6],
      bs[7] + 256 * bs[8]>>

\* the value is below 2^16: every limb but the lowest is 0
IsSmall(d) == \A i \in 2..Len(d) : d[i] = 0

\* the value of a small u32 or u64
Small(d) == d[1]

\* a + b in u32: the wrapped sum and whether it overflowed
Add32(a, b) ==
    LET s1 == a[1] + b[1]
        s2 == a[2] + b[2] + s1 \div 65536
    IN  [val |-> <<s1 % 65536, s2 % 65536>>, overflow |-> s2 >= 65536]

\* a - b in u32: the wrapped difference and whether it underflowed
Sub32(a, b) ==
    LET d1 == a[1] - b[1]
        d2 == a[2] - b[2] - (IF d1 < 0 THEN 1 ELSE 0)
    IN  [val |-> <<(d1 + 65536) % 65536, (d2 + 65536) % 65536>>, overflow |-> d2 < 0]

\* `x as u64` / `.into()` of a u32: zero extension
ToU64(d) == <<d[1], d[2], 0, 0>>

\* a + b in u64, wrapped
Add64(a, b) ==
    LET s1 == a[1] + b[1]
        s2 == a[2] + b[2] + s1 \div 65536
        s3 == a[3] + b[3] + s2 \div 65536
        s4 == a[4] + b[4] + s3 \div 65536
    IN  <<s1 % 65536, s2 % 65536, s3 % 65536, s4 % 65536>>

\* position() < len as u64, with len a buffer length
LessThanLen(p, len) == IsSmall(p) /\ Small(p) < len

\* s[a..b] of the code (0-based, half-open)
Slice(s, a, b) == SubSeq(s, a + 1, b)

(***************************************************************************)
(* Text conversions used by read().                                        *)
(***************************************************************************)
IsCont(b) == b >= 128 /\ b <= 191

RECURSIVE Utf8Valid(_)
\* std::str::from_utf8(bs).is_ok(): bs is well-formed UTF-8
Utf8Valid(bs) ==
    IF bs = <<>> THEN TRUE
    ELSE LET n == Len(bs)
             b0 == bs[1]
             Rest(k) == Utf8Valid(SubSeq(bs, k + 1, n))
         IN  IF b0 <= 127 THEN Rest(1)
             ELSE IF b0 >= 194 /\ b0 <= 223
                  THEN n >= 2 /\ IsCont(bs[2]) /\ Rest(2)
             ELSE IF b0 >= 224 /\ b0 <= 239
                  THEN /\ n >= 3
                       /\ IsCont(bs[2]) /\ IsCont(bs[3])
                       /\ (b0 = 224 => bs[2] >= 160)
                       /\ (b0 = 237 => bs[2] <= 159)
                       /\ Rest(3)
             ELSE IF b0 >= 240 /\ b0 <= 244
                  THEN /\ n >= 4
                       /\ IsCont(bs[2]) /\ IsCont(bs[3]) /\ IsCont(bs[4])
                       /\ (b0 = 240 => bs[2] >= 144)
                       /\ (b0 = 244 => bs[2] <= 143)
                       /\ Rest(4)
             ELSE FALSE

\* the check string "CMMM" as bytes
CMMM == <<67, 77, 77, 77>>

\* chunks_exact(2) then u16::from_ne_bytes: the code units of a byte vector,
\* a trailing odd byte dropped
Utf16Units(bs) == [i \in 1..(Len(bs) \div 2) |-> bs[2 * i - 1] + 256 * bs[2 * i]]

IsHighSurrogate(u) == u >= 55296 /\ u <= 56319
IsLowSurrogate(u) == u >= 56320 /\ u <= 57343

RECURSIVE Utf16Lossy(_)
\* String::from_utf16_lossy: the scalar values of the decoded text, an
\* unpaired surrogate replaced by U+FFFD (65533)
Utf16Lossy(us) ==
    IF us = <<>> THEN <<>>
    ELSE IF IsHighSurrogate(us[1]) /\ Len(us) >= 2 /\ IsLowSurrogate(us[2])
         THEN <<65536 + (us[1] - 55296) * 1024 + (us[2] - 56320)>>
              \o Utf16Lossy(SubSeq(us, 3, Len(us)))
    ELSE IF IsHighSurrogate(us[1]) \/ IsLowSurrogate(us[1])
         THEN <<65533>> \o Utf16Lossy(Tail(us))
    ELSE <<us[1]>> \o Utf16Lossy(Tail(us))

(***************************************************************************)
(* Header resolution tables of read().                                     *)
(***************************************************************************)
\* match format_version { 20 => WinVista, 21 => Win7, 30 => Win8, ... }
VersionOf(format_version) ==
    IF ~IsSmall(format_version) THEN "None"
    ELSE CASE Small(format_version) = 20 -> "WinVista"
           [] Small(format_version) = 21 -> "Win7"
           [] Small(format_version) = 30 -> "Win8"
           [] Small(format_version) = 31 -> "Win81"
           [] Small(format_version) = 32 -> "Win10"
           [] OTHER -> "None"

VistaTypes == <<"Res32", "Res96", "Res256", "Res1024", "SR">>
Win7Types == <<"Res32", "Res96", "Res256", "Res1024", "SR">>
Win8Types == <<"Res16", "Res32", "Res48", "Res96", "Res256", "Res1024", "SR",
               "Wide", "EXIF">>
Win81Types == <<"Res16", "Res32", "Res48", "Res96", "Res256", "Res1024",
                "Res1600", "SR", "Wide", "EXIF", "WideAlternate">>

\* the Win10 arm with the Win81 arm's codes
Win10TypesAsWin81 ==
    <<"Res16", "Res32", "Res48", "Res96", "Res256", "Res1024", "Res1600", "SR",
      "Wide", "EXIF", "WideAlternate">>

Win10Types == <<"Res16", "Res32", "Res48", "Res96", "Res256", "Res768",
                "Res1280", "Res1920", "Res2560", "SR", "Wide", "EXIF",
                "WideAlternate", "CustomStream">>

\* the inner match cache_type { ... _ => {} } of each version arm
TypesOf(version) ==
    CASE version = "WinVista" -> VistaTypes
      [] version = "Win7" -> Win7Types
      [] version = "Win8" -> Win8Types
      [] version = "Win81" -> Win81Types
      [] version = "Win10" -> Win10Types
      [] OTHER -> <<>>

CacheTypeOf(version, cache_type) ==
    IF IsSmall(cache_type) /\ Small(cache_type) < Len(TypesOf(version))
    THEN TypesOf(version)[Small(cache_type) + 1]
    ELSE "None"

(***************************************************************************)
(* Input buffers.  A buffer is written from a description: the 24 header   *)
(* bytes the decoder reads (magic, format_revision, type_code,             *)
(* first_entry_offset), a gap up to 24 + first_entry_offset, then records  *)
(* laid out as the decoder's branch for the file's version reads them, and *)
(* finally `cut` bytes removed from the end of the file.                   *)
(***************************************************************************)
\* a valid text that is not the check string, and bytes that are no text
CMMX == <<67, 77, 77, 88>>
NotText == <<255, 77, 77, 77>>

\* filler for the bytes of an entry header the decoder gives no meaning to:
\* distinct per offset
Filler(a, b) == [i \in 1..(b - a) |-> 100 + a + i - 1]

\* the 56-byte entry header, fields placed where the WinVista arm reads them
VistaEntryHeader(r) ==
    r.magic \o r.size \o Filler(8, 16)
    \o <<106, 0, 112, 0, 103, 0, 0, 216>>
    \o r.idlen \o Digits(r.pad, 4) \o r.dlen \o Filler(36, 56)

\* the 56-byte entry header, fields placed where the Win7 and later arms
\* read them
ModernEntryHeader(r) ==
    r.magic \o r.size \o Filler(8, 16)
    \o r.idlen \o Digits(r.pad, 4) \o r.dlen \o Filler(28, 56)

EntryHeader(rev, r) == IF rev = 20 THEN VistaEntryHeader(r) ELSE ModernEntryHeader(r)

\* one record: header, identifier bytes, padding, payload, trailing bytes
RecordBytes(rev, r) ==
    EntryHeader(rev, r) \o r.id \o [i \in 1..r.pad |-> 238] \o r.data
    \o [i \in 1..r.trail |-> 221]


\* a record whose declared lengths are those of the bytes present and whose
\* declared size is their sum plus delta
Rec(magic, id, pad, data, trail, delta) ==
    [magic |-> magic, id |-> id, pad |-> pad, data |-> data, trail |-> trail,
     idlen |-> Digits(Len(id), 4), dlen |-> Digits(Len(data), 4),
     size |-> Digits(56 + Len(id) + pad + Len(data) + trail + delta, 4),
     delta |-> delta]

\* the records files are written from, by name
RecordOf(k) ==
    CASE k = "example" -> Rec(CMMM, <<97, 0>>, 0, <<1, 2, 3, 4>>, 0, 0)
      [] k = "padded" -> Rec(CMMM, <<0, 216, 98, 0, 61, 216, 0, 222>>, 1, <<9>>, 0, 0)
      [] k = "empty" -> Rec(CMMM, <<>>, 0, <<>>, 0, 0)
      [] k = "trailing" -> Rec(CMMM, <<99, 0>>, 0, <<7, 8>>, 1, 0)
      [] k = "undersized" -> Rec(CMMM, <<100, 0>>, 0, <<5, 6>>, 0, -1)
      [] k = "nodata" -> Rec(CMMM, <<101, 0, 102>>, 0, <<>>, 0, 0)
      [] k = "othertext" -> Rec(CMMX, <<103, 0>>, 0, <<10, 11>>, 0, 0)
      [] k = "nottext" -> Rec(NotText, <<>>, 0, <<>>, 0, 0)

RecordKinds ==
    {"example", "padded", "empty", "trailing", "undersized", "nodata",
     "othertext", "nottext"}

RECURSIVE RecordsBytes(_, _)
RecordsBytes(rev, ks) ==
    IF ks = <<>> THEN <<>>
    ELSE RecordBytes(rev, RecordOf(Head(ks))) \o RecordsBytes(rev, Tail(ks))

RECURSIVE SeqsUpTo(_, _)
\* the sequences over S of length at most n
SeqsUpTo(S, n) ==
    IF n = 0 THEN {<<>>}
    ELSE LET T == SeqsUpTo(S, n - 1)
         IN  T \cup {Append(t, x) : t \in {u \in T : Len(u) = n - 1}, x \in S}

\* first_entry_offset values: 0, 8, and 2^32 - 24 (24 + it does not fit u32)
FirstEntryZero == <<0, 0, 0, 0>>
FirstEntryEight == <<8, 0, 0, 0>>
FirstEntryHuge == <<232, 255, 255, 255>>

\* the gap between the 24 header bytes and the first record
GapBytes(feo) == IF feo = FirstEntryEight THEN Filler(24, 32) ELSE <<>>

FileBytes(in) ==
    LET full == in.magic \o Digits(in.rev, 4) \o Digits(in.type, 4) \o in.feo
                \o Filler(16, 24) \o GapBytes(in.feo) \o RecordsBytes(in.rev, in.recs)
    IN  SubSeq(full, 1, IF Len(full) >= in.cut THEN Len(full) - in.cut ELSE 0)

Revisions == {19, 20, 21, 30, 31, 32}

\* files that vary the records behind a good header, one revision per arm
\* of the entry loop (19 is no known revision)
RecordInputs ==
    [magic : {CMMM}, rev : {19, 20, 21, 32}, type : {4}, feo : {FirstEntryEight},
     recs : SeqsUpTo(RecordKinds, MaxRecords), cut : 0..MaxCut]

\* whole files of good records under the two other revisions of the _ arm
ModernInputs ==
    [magic : {CMMM}, rev : {30, 31}, type : {4}, feo : {FirstEntryEight},
     recs : SeqsUpTo({"example", "padded"}, MaxRecords), cut : {0}]

\* files that vary the revision and the type code
TypeInputs ==
    [magic : {CMMM}, rev : Revisions, type : 0..14, feo : {FirstEntryEight},
     recs : {<<>>}, cut : {0}]

\* files that vary the check string, the first entry offset and the length
\* of the file, down to less than a header
MagicInputs ==
    [magic : {CMMM, CMMX, NotText}, rev : {19, 21}, type : {4},
     feo : {FirstEntryZero, FirstEntryEight, FirstEntryHuge},
     recs : {<<>>, <<"example">>}, cut : {0, MaxCut}]

Inputs == RecordInputs \cup ModernInputs \cup TypeInputs \cup MagicInputs

(***************************************************************************)
(* State.                                                                  *)
(*   input            the description the buffer was written from          *)
(*   build            how the program was built: overflow_checks (a debug  *)
(*                    build panics on u32 overflow, a release build wraps) *)
(*                    and eof_seek (whether the standard library's         *)
(*                    Cursor::read_exact leaves the cursor at the end of   *)
(*                    the buffer, or where it was, when it fails)          *)
(*   buf, pos         Thumbscache.stream: the bytes and the cursor (u64)   *)
(*   windows_version, cache_type, cache_entires   the public fields        *)
(*   added_entries    the local counter of read()                          *)
(*   pc               "start", "loop" (top of the while), "done"           *)
(*   result           what read() returned, or that it panicked            *)
(*   earlier          what read() left on an earlier Thumbscache value     *)
(*                    opened over the same bytes, if there was one         *)
(*   disk             the files on disk, by path, as far as                *)
(*                    write_to_file is concerned                           *)
(*   written          the last write_to_file call: entry, path, result     *)
(***************************************************************************)
VARIABLES input, build, buf, pos, windows_version, cache_type, cache_entires,
          added_entries, pc, result, earlier, disk, written

vars == <<input, build, buf, pos, windows_version, cache_type, cache_entires,
          added_entries, pc, result, earlier, disk, written>>


Result(kind, n, text) == [kind |-> kind, n |-> n, text |-> text]

NoResult == Result("none", 0, <<>>)
Ok(n) == Result("Ok", n, <<>>)
IoError == Result("IoError", 0, <<>>)
UnexpectedString(text) == Result("UnexpectedString", 0, text)
InvalidCheckString == Result("InvalidCheckString", 0, <<>>)
Panic == Result("panic", 0, <<>>)

Builds == [overflow_checks : BOOLEAN, eof_seek : BOOLEAN]

\* no earlier value, no file, no write_to_file call yet
NoRun == [kind |-> "none"]
NoFiles == [path \in {} |-> <<>>]
NoWrite == [kind |-> "none"]

\* open_thumbscache: the file's bytes under a cursor at 0, nothing resolved
Init ==
    /\ input \in Inputs
    /\ build \in Builds
    /\ buf = FileBytes(input)
    /\ pos = Zeros(4)
    /\ windows_version = "None"
    /\ cache_type = "None"
    /\ cache_entires = <<>>
    /\ added_entries = 0
    /\ pc = "start"
    /\ result = NoResult
    /\ earlier = NoRun
    /\ disk = NoFiles
    /\ written = NoWrite

(***************************************************************************)
(* Cursor<Vec<u8>>.                                                        *)
(***************************************************************************)
\* where a read at cursor p starts: min(pos, len)
ReadStart(b, p) == IF LessThanLen(p, Len(b)) THEN Small(p) ELSE Len(b)

\* p + n on 64 bits
Advance(p, n) == Add64(p, ToU64(n))

\* a read_exact that copies the bytes there are before it fails
ReadExactPartialFill(b, p, n, bld) ==
    LET start == ReadStart(b, p)
        ok == IsSmall(n) /\ Small(n) <= Len(b) - start
    IN  [ok |-> ok,
         huge |-> ~IsSmall(n),
         bytes |-> IF ok THEN Slice(b, start, start + Small(n))
                   ELSE IF IsSmall(n)
                        THEN Slice(b, start, Len(b)) \o Zeros(Small(n) - (Len(b) - start))
                        ELSE <<>>,
         pos |-> IF ok THEN Advance(p, n)
                 ELSE IF bld.eof_seek THEN ToU64(U32(Len(b))) ELSE p]

\* stream.read_exact(&mut [0u8; n]) at cursor p, n a u32.  On a short read
\* the destination keeps its zeros and the cursor is left at the end of the
\* buffer or where it was, by the build.
ReadExact(b, p, n, bld) ==
    LET start == ReadStart(b, p)
        ok == IsSmall(n) /\ Small(n) <= Len(b) - start
    IN  [ok |-> ok,
         huge |-> ~IsSmall(n),
         bytes |-> IF ok THEN Slice(b, start, start + Small(n))
                   ELSE IF IsSmall(n) THEN Zeros(Small(n)) ELSE <<>>,
         pos |-> IF ok THEN Advance(p, n)
                 ELSE IF bld.eof_seek THEN ToU64(U32(Len(b))) ELSE p]

(***************************************************************************)
(* read(): header resolution.                                              *)
(***************************************************************************)
\* 24 + first_entry in u32
FirstEntryPosition(first_entry) == Add32(U32(24), first_entry)


\* the two error arms of the check exchanged
HeaderCheckArmsExchanged(rd) ==
    IF ~rd.ok THEN IoError
    ELSE IF ~Utf8Valid(Slice(rd.bytes, 0, 4)) THEN UnexpectedString(Slice(rd.bytes, 0, 4))
    ELSE IF Slice(rd.bytes, 0, 4) # CMMM THEN InvalidCheckString
    ELSE NoResult

\* the check without its else arm, as in the entry loop: bytes that are no
\* text pass
HeaderCheckNoElse(rd) ==
    IF ~rd.ok THEN IoError
    ELSE IF ~Utf8Valid(Slice(rd.bytes, 0, 4)) THEN NoResult
    ELSE IF Slice(rd.bytes, 0, 4) # CMMM THEN UnexpectedString(Slice(rd.bytes, 0, 4))
    ELSE NoResult

\* the check of the first four bytes, after the 32-byte read: the error
\* read() returns, or NoResult when it goes on
HeaderCheck(rd) ==
    IF ~rd.ok THEN IoError
    ELSE IF ~Utf8Valid(Slice(rd.bytes, 0, 4)) THEN InvalidCheckString
    ELSE IF Slice(rd.bytes, 0, 4) # CMMM THEN UnexpectedString(Slice(rd.bytes, 0, 4))
    ELSE NoResult

\* windows_version and cache_type after the two matches, from the values
\* version0 and type0 they had: an arm that matches nothing assigns nothing
ResolvedFields(read_bytes, version0, type0) ==
    LET version == VersionOf(FromBytes32(Slice(read_bytes, 4, 8)))
        kind == CacheTypeOf(version, FromBytes32(Slice(read_bytes, 8, 12)))
    IN  [version |-> IF version = "None" THEN version0 ELSE version,
         type |-> IF kind = "None" THEN type0 ELSE kind]


\* the two matches done before the check returns
HeaderFieldsBeforeCheck(chk, read_bytes, version0, type0) ==
    ResolvedFields(read_bytes, version0, type0)

\* the fields the header part leaves: untouched when the check returned
HeaderFields(chk, read_bytes, version0, type0) ==
    IF chk # NoResult THEN [version |-> version0, type |-> type0]
    ELSE ResolvedFields(read_bytes, version0, type0)

ReadHeader ==
    /\ pc = "start"
    /\ LET rd == ReadExact(buf, pos, U32(32), build)
           chk == HeaderCheck(rd)
           fields == HeaderFields(chk, rd.bytes, windows_version, cache_type)
           first == FirstEntryPosition(FromBytes32(Slice(rd.bytes, 12, 16)))
           panics == chk = NoResult /\ first.overflow /\ build.overflow_checks
       IN  /\ windows_version' = fields.version
           /\ cache_type' = fields.type
           /\ pos' = IF chk # NoResult \/ panics THEN rd.pos ELSE ToU64(first.val)
           /\ pc' = IF chk # NoResult \/ panics THEN "done" ELSE "loop"
           /\ result' = IF panics THEN Panic ELSE chk
    /\ UNCHANGED <<input, build, buf, cache_entires, added_entries,
                   earlier, disk, written>>

(***************************************************************************)
(* read(): the entry loop.                                                 *)
(***************************************************************************)
\* while self.stream.position() < self.stream.get_ref().len() as u64
LoopCondition == LessThanLen(pos, Len(buf))

\* the entry header looked at without being consumed
EntryHeaderPeek == [ReadExact(buf, pos, U32(56), build) EXCEPT !.pos = pos]

\* let _ = self.stream.read_exact(&mut temp_bytes) on temp_bytes = [0;56]
EntryHeaderRead == ReadExact(buf, pos, U32(56), build)

temp_bytes == EntryHeaderRead.bytes

\* std::str::from_utf8(&temp_bytes[0..4]) is Ok(check_string)
EntryMagicIsText == Utf8Valid(Slice(temp_bytes, 0, 4))

EntryMagicIsCMMM == Slice(temp_bytes, 0, 4) = CMMM

\* the while condition fails: Ok(added_entries)
LoopExit ==
    /\ pc = "loop"
    /\ ~LoopCondition
    /\ pc' = "done"
    /\ result' = Ok(added_entries)
    /\ UNCHANGED <<input, build, buf, pos, windows_version, cache_type,
                   cache_entires, added_entries,
                   earlier, disk, written>>

\* check_string != "CMMM": break, then Ok(added_entries)
IterBreak ==
    /\ pc = "loop"
    /\ LoopCondition
    /\ EntryMagicIsText
    /\ ~EntryMagicIsCMMM
    /\ pos' = EntryHeaderRead.pos
    /\ pc' = "done"
    /\ result' = Ok(added_entries)
    /\ UNCHANGED <<input, build, buf, windows_version, cache_type, cache_entires,
                   added_entries,
                   earlier, disk, written>>

\* from_utf8 fails: the if let has no else, the loop goes on
IterNotText ==
    /\ pc = "loop"
    /\ LoopCondition
    /\ ~EntryMagicIsText
    /\ pos' = EntryHeaderRead.pos
    /\ UNCHANGED <<input, build, buf, windows_version, cache_type, cache_entires,
                   added_entries, pc, result,
                   earlier, disk, written>>

\* match self.windows_version { None => {} }: the loop goes on
IterNoVersion ==
    /\ pc = "loop"
    /\ LoopCondition
    /\ EntryMagicIsText
    /\ EntryMagicIsCMMM
    /\ windows_version = "None"
    /\ pos' = EntryHeaderRead.pos
    /\ UNCHANGED <<input, build, buf, windows_version, cache_type, cache_entires,
                   added_entries, pc, result,
                   earlier, disk, written>>

\* the fields each arm takes from temp_bytes (half-open byte ranges)
VistaLayout ==
    [size |-> <<4, 8>>, identifier_string_size |-> <<24, 28>>,
     padding_size |-> <<28, 32>>, data_size |-> <<32, 36>>,
     data_checksum |-> <<40, 48>>, header_checksum |-> <<48, 56>>]

Win7Layout ==
    [size |-> <<4, 8>>, identifier_string_size |-> <<16, 20>>,
     padding_size |-> <<20, 24>>, data_size |-> <<24, 28>>,
     data_checksum |-> <<32, 40>>, header_checksum |-> <<40, 48>>]

\* the _ arm with the checksum offsets of the Win7 arm
Win8PlusLayoutChecksumsAsWin7 ==
    [size |-> <<4, 8>>, identifier_string_size |-> <<16, 20>>,
     padding_size |-> <<20, 24>>, data_size |-> <<24, 28>>,
     data_checksum |-> <<32, 40>>, header_checksum |-> <<40, 48>>]

Win8PlusLayout ==
    [size |-> <<4, 8>>, identifier_string_size |-> <<16, 20>>,
     padding_size |-> <<20, 24>>, data_size |-> <<24, 28>>,
     data_checksum |-> <<40, 48>>, header_checksum |-> <<48, 56>>]

Field(bytes, range) == FromBytes32(Slice(bytes, range[1], range[2]))

\* a u64 field
Field64(bytes, range) == FromBytes64(Slice(bytes, range[1], range[2]))

\* size - (56 + data_size + identifier_string_size + padding_size) in u32:
\* the wrapped value and whether any step left the 32 bits
TrailingSkip(size, data_size, identifier_string_size, padding_size) ==
    LET s1 == Add32(U32(56), data_size)
        s2 == Add32(s1.val, identifier_string_size)
        s3 == Add32(s2.val, padding_size)
        d == Sub32(size, s3.val)
    IN  [val |-> d.val,
         overflow |-> s1.overflow \/ s2.overflow \/ s3.overflow \/ d.overflow]

\* the identifier text of the vector read (a vector of n zeros too long to
\* write out decodes to n / 2 NULs, kept symbolic)
IdentifierString(idr, n) ==
    IF idr.huge THEN [nuls_of |-> n] ELSE Utf16Lossy(Utf16Units(idr.bytes))

\* WinVista arm: the identifier is sliced out of the buffer at the cursor,
\* which does not move
VistaIdentifierRead(b, p, n, bld) ==
    LET start == ReadStart(b, p)
        ok == IsSmall(p) /\ IsSmall(n) /\ Small(p) + Small(n) <= Len(b)
    IN  [panic |-> ~ok,
         huge |-> FALSE,
         bytes |-> IF ok THEN Slice(b, start, start + Small(n)) ELSE <<>>,
         pos |-> p]


\* the identifier read without moving the cursor, as the WinVista arm does
ModernIdentifierReadInPlace(b, p, n, bld) ==
    LET rd == ReadExact(b, p, n, bld)
    IN  [panic |-> FALSE, huge |-> rd.huge, bytes |-> rd.bytes, pos |-> p]

\* Win7 and later arms: let _ = read_exact(&mut identifier_string_vec)
ModernIdentifierRead(b, p, n, bld) ==
    LET rd == ReadExact(b, p, n, bld)
    IN  [panic |-> FALSE, huge |-> rd.huge, bytes |-> rd.bytes, pos |-> rd.pos]

\* from the identifier on: padding skip, payload read, trailing skip, the
\* entry.  kind is "entry", "IoError" or "panic"; pos is the cursor left;
\* data_at is the cursor at the payload read, when the arm reached it.
FinishEntry(b, bld, temp, layout, file_extension, idr) ==
    LET size == Field(temp, layout.size)
        identifier_string_size == Field(temp, layout.identifier_string_size)
        padding_size == Field(temp, layout.padding_size)
        data_size == Field(temp, layout.data_size)
        data_at == Advance(idr.pos, padding_size)
        dr == ReadExact(b, data_at, data_size, bld)
        skip == TrailingSkip(size, data_size, identifier_string_size, padding_size)
        entry == [size |-> size,
                  file_extension |-> file_extension,
                  identifier_string_size |-> identifier_string_size,
                  padding_size |-> padding_size,
                  data_size |-> data_size,
                  data_checksum |-> Field64(temp, layout.data_checksum),
                  header_checksum |-> Field64(temp, layout.header_checksum),
                  identifier_string |-> IdentifierString(idr, identifier_string_size),
                  data |-> dr.bytes]
    IN  IF idr.panic
        THEN [kind |-> "panic", pos |-> idr.pos, entry |-> <<>>,
              reached_data |-> FALSE, data_at |-> idr.pos]
        ELSE IF ~dr.ok
        THEN [kind |-> "IoError", pos |-> dr.pos, entry |-> <<>>,
              reached_data |-> TRUE, data_at |-> data_at]
        ELSE IF skip.overflow /\ bld.overflow_checks
        THEN [kind |-> "panic", pos |-> dr.pos, entry |-> <<>>,
              reached_data |-> TRUE, data_at |-> data_at]
        ELSE [kind |-> "entry", pos |-> Advance(dr.pos, skip.val), entry |-> entry,
              reached_data |-> TRUE, data_at |-> data_at]

\* the WinVista arm on a header temp read up to cursor p
DecodeVista(b, bld, temp, p) ==
    FinishEntry(b, bld, temp, VistaLayout,
                Utf16Lossy(Utf16Units(Slice(temp, 16, 24))),
                VistaIdentifierRead(b, p, Field(temp, VistaLayout.identifier_string_size), bld))

\* the Win7 arm
DecodeWin7(b, bld, temp, p) ==
    FinishEntry(b, bld, temp, Win7Layout, "None",
                ModernIdentifierRead(b, p, Field(temp, Win7Layout.identifier_string_size), bld))

\* the _ arm: Win8, Win81, Win10
DecodeWin8Plus(b, bld, temp, p) ==
    FinishEntry(b, bld, temp, Win8PlusLayout, "None",
                ModernIdentifierRead(b, p, Field(temp, Win8PlusLayout.identifier_string_size), bld))

\* the arm taken for a version
DecodeEntry(version, b, bld, temp, p) ==
    CASE version = "WinVista" -> DecodeVista(b, bld, temp, p)
      [] version = "Win7" -> DecodeWin7(b, bld, temp, p)
      [] OTHER -> DecodeWin8Plus(b, bld, temp, p)


\* a short payload read taken as the end of the list
TakeOutcomeShortReadEndsList(o) ==
    /\ pos' = o.pos
    /\ cache_entires' = IF o.kind = "entry" THEN Append(cache_entires, o.entry)
                        ELSE cache_entires
    /\ added_entries' = IF o.kind = "entry" THEN added_entries + 1 ELSE added_entries
    /\ pc' = IF o.kind = "entry" THEN "loop" ELSE "done"
    /\ result' = CASE o.kind = "IoError" -> Ok(added_entries)
                   [] o.kind = "panic" -> Panic
                   [] OTHER -> result
    /\ UNCHANGED <<input, build, buf, windows_version, cache_type,
                   earlier, disk, written>>

\* the list emptied when the payload read fails
TakeOutcomeErrorDiscards(o) ==
    /\ pos' = o.pos
    /\ cache_entires' = IF o.kind = "entry" THEN Append(cache_entires, o.entry)
                        ELSE IF o.kind = "IoError" THEN <<>>
                        ELSE cache_entires
    /\ added_entries' = IF o.kind = "entry" THEN added_entries + 1 ELSE added_entries
    /\ pc' = IF o.kind = "entry" THEN "loop" ELSE "done"
    /\ result' = CASE o.kind = "IoError" -> IoError
                   [] o.kind = "panic" -> Panic
                   [] OTHER -> result
    /\ UNCHANGED <<input, build, buf, windows_version, cache_type,
                   earlier, disk, written>>

\* the WinVista arm pushing its entry without counting it
TakeOutcomeVistaUncounted(o) ==
    /\ pos' = o.pos
    /\ cache_entires' = IF o.kind = "entry" THEN Append(cache_entires, o.entry)
                        ELSE cache_entires
    /\ added_entries' = IF o.kind = "entry" /\ windows_version # "WinVista"
                        THEN added_entries + 1 ELSE added_entries
    /\ pc' = IF o.kind = "entry" THEN "loop" ELSE "done"
    /\ result' = CASE o.kind = "IoError" -> IoError
                   [] o.kind = "panic" -> Panic
                   [] OTHER -> result
    /\ UNCHANGED <<input, build, buf, windows_version, cache_type,
                   earlier, disk, written>>

\* the effect of one arm's outcome on the state: push and count, or return
\* Err(IoError) by ?, or panic
TakeOutcome(o) ==
    /\ pos' = o.pos
    /\ cache_entires' = IF o.kind = "entry" THEN Append(cache_entires, o.entry)
                        ELSE cache_entires
    /\ added_entries' = IF o.kind = "entry" THEN added_entries + 1 ELSE added_entries
    /\ pc' = IF o.kind = "entry" THEN "loop" ELSE "done"
    /\ result' = CASE o.kind = "IoError" -> IoError
                   [] o.kind = "panic" -> Panic
                   [] OTHER -> result
    /\ UNCHANGED <<input, build, buf, windows_version, cache_type,
                   earlier, disk, written>>

EntryGuard ==
    /\ pc = "loop"
    /\ LoopCondition
    /\ EntryMagicIsText
    /\ EntryMagicIsCMMM

IterVista ==
    /\ windows_version = "WinVista"
    /\ EntryGuard
    /\ LET hd == EntryHeaderRead
           o == DecodeEntry(windows_version, buf, build, hd.bytes, hd.pos)
       IN  TakeOutcome(o)

IterWin7 ==
    /\ windows_version = "Win7"
    /\ EntryGuard
    /\ LET hd == EntryHeaderRead
           o == DecodeEntry(windows_version, buf, build, hd.bytes, hd.pos)
       IN  TakeOutcome(o)

IterWin8Plus ==
    /\ windows_version \in {"Win8", "Win81", "Win10"}
    /\ EntryGuard
    /\ LET hd == EntryHeaderRead
           o == DecodeEntry(windows_version, buf, build, hd.bytes, hd.pos)
       IN  TakeOutcome(o)

(***************************************************************************)
(* A second Thumbscache value over the same bytes.                         *)
(***************************************************************************)

\* a value opened that keeps the list of the one before
OpenThumbscacheKeepsEntries(bytes) ==
    [stream |-> [bytes |-> bytes, pos |-> Zeros(4)],
     windows_version |-> "None",
     cache_entires |-> cache_entires,
     cache_type |-> "None"]

\* open_thumbscache: Cursor::new(bytes), nothing resolved, no entries
OpenThumbscache(bytes) ==
    [stream |-> [bytes |-> bytes, pos |-> Zeros(4)],
     windows_version |-> "None",
     cache_entires |-> <<>>,
     cache_type |-> "None"]

\* what a finished read() left, kept for comparison
Outcome ==
    [kind |-> "run", result |-> result, windows_version |-> windows_version,
     cache_type |-> cache_type, cache_entires |-> cache_entires]

\* once read() is over, the same bytes are opened into a fresh value and
\* read() starts on it; what the first value held is kept in `earlier`
OpenAgain ==
    /\ pc = "done"
    /\ earlier = NoRun
    /\ written = NoWrite
    /\ disk = NoFiles
    /\ earlier' = Outcome
    /\ LET fresh == OpenThumbscache(buf)
       IN  /\ buf' = fresh.stream.bytes
           /\ pos' = fresh.stream.pos
           /\ windows_version' = fresh.windows_version
           /\ cache_type' = fresh.cache_type
           /\ cache_entires' = fresh.cache_entires
    /\ added_entries' = 0
    /\ pc' = "start"
    /\ result' = NoResult
    /\ UNCHANGED <<input, build, disk, written>>

(***************************************************************************)
(* CacheEntry::write_to_file and the files it meets.                       *)
(***************************************************************************)
\* the path a caller gives: "out"
GivenPath == <<111, 117, 116>>

\* what a file found at the destination may hold: nothing, or six bytes
OldContents == {<<>>, <<201, 202, 203, 204, 205, 206>>}

\* format!("./{}.bmp", self.identifier_string), as scalar values
DefaultPath(identifier_string) ==
    <<46, 47>> \o identifier_string \o <<46, 98, 109, 112>>

\* the identifier is short enough to be written out as a text
HasText(entry) == IsSmall(entry.identifier_string_size)

\* the path write_to_file opens: the one given, or the default one
PathOf(entry, file_path) ==
    IF file_path = "None" THEN DefaultPath(entry.identifier_string) ELSE file_path

\* OpenOptions::new().create(true).write(true).open(path): fails on a path
\* with a NUL in it; else the file is created empty if there is none, and
\* one that exists is opened as it is, its bytes kept
OpenForWrite(files, path) ==
    IF \E i \in 1..Len(path) : path[i] = 0
    THEN [ok |-> FALSE, files |-> files]
    ELSE [ok |-> TRUE,
          files |-> [q \in DOMAIN files \cup {path} |->
                        IF q \in DOMAIN files THEN files[q] ELSE <<>>]]

\* file.write_all(&self.data) on a file just opened: the bytes go over the
\* first Len(data) bytes of the file, what lies behind them stays
WriteAll(old, data) == data \o SubSeq(old, Len(data) + 1, Len(old))

\* a file is found on disk where an entry may be written later on: at the
\* path a caller gives or at the default path of the first entry
ExistingFile ==
    /\ pc = "done"
    /\ result.kind = "Ok"
    /\ earlier = NoRun
    /\ written = NoWrite
    /\ disk = NoFiles
    /\ cache_entires # <<>>
    /\ \E path \in {GivenPath} \cup {DefaultPath(cache_entires[i].identifier_string) :
                                       i \in {j \in {1} : HasText(cache_entires[j])}},
          old \in OldContents :
           disk' = [q \in {path} |-> old]
    /\ UNCHANGED <<input, build, buf, pos, windows_version, cache_type,
                   cache_entires, added_entries, pc, result, earlier, written>>

\* entry.write_to_file(file_path) on an entry of the list read() returned
WriteToFile ==
    /\ pc = "done"
    /\ result.kind = "Ok"
    /\ earlier = NoRun
    /\ written = NoWrite
    /\ \E i \in 1..Len(cache_entires), file_path \in {"None", GivenPath} :
           LET entry == cache_entires[i]
               named == file_path # "None" \/ HasText(entry)
               path == IF named THEN PathOf(entry, file_path) ELSE <<0>>
               opened == OpenForWrite(disk, path)
           IN  IF opened.ok
               THEN /\ disk' = [opened.files EXCEPT
                                    ![path] = WriteAll(opened.files[path], entry.data)]
                    /\ written' = [kind |-> "Ok", entry |-> entry,
                                   file_path |-> file_path, path |-> path]
               ELSE /\ disk' = disk
                    /\ written' = [kind |-> "IoError", entry |-> entry,
                                   file_path |-> file_path, path |-> path]
    /\ UNCHANGED <<input, build, buf, pos, windows_version, cache_type,
                   cache_entires, added_entries, pc, result, earlier>>

Next ==
    \/ ReadHeader
    \/ LoopExit
    \/ IterBreak
    \/ IterNotText
    \/ IterNoVersion
    \/ IterVista
    \/ IterWin7
    \/ IterWin8Plus
    \/ OpenAgain
    \/ ExistingFile
    \/ WriteToFile

Spec == Init /\ [][Next]_vars

\* one call of read() alone, from the value opened to its return
ReadStep ==
    \/ ReadHeader
    \/ LoopExit
    \/ IterBreak
    \/ IterNotText
    \/ IterNoVersion
    \/ IterVista
    \/ IterWin7
    \/ IterWin8Plus

\* read() is sequential code: a call that has not returned takes its next
\* step.  This is weak fairness of ReadStep, with its enabling condition
\* written out: the guards of the eight steps cover every state of a call
\* that has not returned, so ReadStep is enabled exactly while pc # "done".
FairSpec ==
    Init /\ [][ReadStep]_vars /\ ([]<>(pc = "done") \/ []<><<ReadStep>>_vars)

(***************************************************************************)
(* Properties.                                                             *)
(***************************************************************************)
IsPrefix(s, t) == Len(s) <= Len(t) /\ SubSeq(t, 1, Len(s)) = s

\* the entry header under the cursor was read whole
EntryHeaderWhole == pc = "loop" /\ LoopCondition /\ EntryHeaderRead.ok

\* what the arm for the current version does on the header under the cursor
ArmOutcome ==
    DecodeEntry(windows_version, buf, build, temp_bytes, EntryHeaderRead.pos)

\* n bytes are more than what is left in the buffer from cursor p
ShortOf(n, p) == ~IsSmall(n) \/ Small(n) > Len(buf) - ReadStart(buf, p)

\* the record was written with the check string, no trailing bytes and a
\* size that is the sum of its parts
GoodRecord(k) ==
    RecordOf(k).magic = CMMM /\ RecordOf(k).trail = 0 /\ RecordOf(k).delta = 0

\* a complete file: a whole header with the check string, records from
\* 24 + first_entry_offset on, nothing cut
WholeFile ==
    /\ input.magic = CMMM
    /\ input.feo \in {FirstEntryZero, FirstEntryEight}
    /\ input.cut = 0
    /\ Len(buf) >= 32

WellFormedModernFile ==
    /\ WholeFile
    /\ input.rev \in {21, 30, 31, 32}
    /\ \A i \in 1..Len(input.recs) : GoodRecord(input.recs[i])

\* entry e is what record k holds: its payload bytes, its identifier decoded
EntryOfRecord(e, k) ==
    /\ e.data = RecordOf(k).data
    /\ e.identifier_string = Utf16Lossy(Utf16Units(RecordOf(k).id))

\* C1: on a whole file of N well-formed back-to-back modern records read()
\* returns Ok(N) and cache_entires holds the N records' entries in file
\* order, payload and identifier as written (and, while the loop runs, the
\* entries of the first records).
C1_WellFormedFileDecodes ==
    (pc \in {"loop", "done"} /\ WellFormedModernFile) =>
        /\ Len(cache_entires) <= Len(input.recs)
        /\ \A i \in 1..Len(cache_entires) :
               EntryOfRecord(cache_entires[i], input.recs[i])
        /\ pc = "done" =>
               /\ result = Ok(Len(input.recs))
               /\ Len(cache_entires) = Len(input.recs)

C1_Witness ==
    /\ pc = "done"
    /\ WellFormedModernFile
    /\ Len(input.recs) = 2
    /\ input.recs[1] # input.recs[2]
    /\ result = Ok(2)
    /\ cache_entires[2].data = <<9>>

\* C2: an entry header read whole whose first four bytes are no text, or a
\* text other than CMMM, ends the scan there: read() returns Ok and the
\* list stays as it was.
C2_CorruptMagicStopsScan ==
    [][(EntryHeaderWhole /\ ~EntryMagicIsCMMM) =>
           /\ pc' = "done"
           /\ result' = Ok(added_entries)
           /\ cache_entires' = cache_entires]_vars

\* the declared lengths of the record under the cursor, as the arm for the
\* current version reads them
LayoutOf(version) ==
    CASE version = "WinVista" -> VistaLayout
      [] version = "Win7" -> Win7Layout
      [] OTHER -> Win8PlusLayout

DeclaredSize == Field(temp_bytes, LayoutOf(windows_version).size)
DeclaredIdLen == Field(temp_bytes, LayoutOf(windows_version).identifier_string_size)
DeclaredPadLen == Field(temp_bytes, LayoutOf(windows_version).padding_size)
DeclaredDataLen == Field(temp_bytes, LayoutOf(windows_version).data_size)

\* a record with the check string under a known version, its identifier,
\* padding and payload all in the buffer, whose declared size is less than
\* 56 + data_len + identifier_len + padding_len
UndersizedRecord ==
    /\ EntryHeaderWhole
    /\ EntryMagicIsCMMM
    /\ windows_version # "None"
    /\ IsSmall(DeclaredSize) /\ IsSmall(DeclaredIdLen)
    /\ IsSmall(DeclaredPadLen) /\ IsSmall(DeclaredDataLen)
    /\ Small(pos) + 56 + Small(DeclaredIdLen) + Small(DeclaredPadLen)
           + Small(DeclaredDataLen) <= Len(buf)
    /\ Small(DeclaredSize) < 56 + Small(DeclaredDataLen) + Small(DeclaredIdLen)
                                + Small(DeclaredPadLen)

\* C3: an undersized record ends the scan without a fault: it is not
\* appended, the earlier entries stay and read() returns Ok.
C3_UndersizedRecordStopsScan ==
    [][UndersizedRecord =>
           /\ pc' = "done"
           /\ result' = Ok(added_entries)
           /\ cache_entires' = cache_entires]_vars

\* C4: a record with the check string whose payload read finds fewer than
\* data_len bytes left makes read() return Err(IoError), and is not appended.
C4_ShortPayloadIsIoError ==
    [][(/\ EntryHeaderWhole
        /\ EntryMagicIsCMMM
        /\ windows_version # "None"
        /\ ArmOutcome.reached_data
        /\ ShortOf(DeclaredDataLen, ArmOutcome.data_at)) =>
           /\ pc' = "done"
           /\ result' = IoError
           /\ cache_entires' = cache_entires]_vars

C4_Witness ==
    /\ pc = "done"
    /\ result = IoError
    /\ Len(buf) >= 32
    /\ input.cut > 0

\* C5: cache_entires only grows by appending: every step of read() keeps the entries
\* it had, in place and unchanged, and a step that returns Err(IoError)
\* leaves the list exactly as the earlier iterations built it.
C5_EntriesAppendOnly ==
    [][pc # "done" =>
       /\ IsPrefix(cache_entires, cache_entires')
       /\ Len(cache_entires') <= Len(cache_entires) + 1
       /\ Len(cache_entires') = added_entries'
       /\ pc' = "done" => cache_entires' = cache_entires]_vars

C5_Witness ==
    /\ pc = "done"
    /\ result = IoError
    /\ Len(cache_entires) = 1
    /\ added_entries = 1

\* the first four bytes of the buffer
FirstFour == Slice(buf, 0, 4)

\* C6 as stated: whatever the length of the buffer, first four bytes that
\* are a text other than CMMM make read() fail with UnexpectedString
\* carrying them.
C6_UnexpectedStringAnyLength ==
    (pc = "done" /\ Len(buf) >= 4 /\ Utf8Valid(FirstFour) /\ FirstFour # CMMM) =>
        result = UnexpectedString(FirstFour)

\* C6 amended: on a buffer of at least 32 bytes, first four bytes that are
\* a text other than CMMM make read() fail with UnexpectedString carrying
\* them; on a shorter buffer read() fails with IoError.
C6_UnexpectedStringWholeHeader ==
    (pc = "done" /\ Len(buf) >= 4 /\ Utf8Valid(FirstFour) /\ FirstFour # CMMM) =>
        result = IF Len(buf) >= 32 THEN UnexpectedString(FirstFour) ELSE IoError

C6_Witness ==
    /\ pc = "done"
    /\ Len(buf) >= 32
    /\ FirstFour = CMMX
    /\ result = UnexpectedString(CMMX)

\* C7 as stated: whatever the length of the buffer, first four bytes that
\* are no text make read() fail with InvalidCheckString.
C7_InvalidCheckStringAnyLength ==
    (pc = "done" /\ Len(buf) >= 4 /\ ~Utf8Valid(FirstFour)) =>
        result = InvalidCheckString

\* C7 amended: on a buffer of at least 32 bytes, first four bytes that are
\* no text make read() fail with InvalidCheckString; on a shorter buffer
\* read() fails with IoError.
C7_InvalidCheckStringWholeHeader ==
    (pc = "done" /\ Len(buf) >= 4 /\ ~Utf8Valid(FirstFour)) =>
        result = IF Len(buf) >= 32 THEN InvalidCheckString ELSE IoError

C7_Witness ==
    /\ pc = "done"
    /\ Len(buf) >= 32
    /\ FirstFour = NotText
    /\ result = InvalidCheckString

\* read() returned from its header part with an error
HeaderFailed ==
    /\ pc = "done"
    /\ \/ result.kind \in {"UnexpectedString", "InvalidCheckString"}
       \/ result = IoError /\ Len(buf) < 32

\* C8: a read() that fails in header resolution leaves cache_entires empty
\* and windows_version and cache_type None.
C8_HeaderFailureLeavesNothing ==
    HeaderFailed =>
        /\ cache_entires = <<>>
        /\ added_entries = 0
        /\ windows_version = "None"
        /\ cache_type = "None"

C8_Witness ==
    /\ HeaderFailed
    /\ result.kind = "UnexpectedString"
    /\ Slice(buf, 4, 8) = <<21, 0, 0, 0>>
    /\ Slice(buf, 8, 12) = <<4, 0, 0, 0>>

\* the table of the specification: format_revision, version, and the kinds
\* of the type codes 0, 1, 2, ... in order
SpecTable ==
    { <<20, "WinVista", <<"Res32", "Res96", "Res256", "Res1024", "SR">> >>,
      <<21, "Win7", <<"Res32", "Res96", "Res256", "Res1024", "SR">> >>,
      <<30, "Win8", <<"Res16", "Res32", "Res48", "Res96", "Res256", "Res1024",
                      "SR", "Wide", "EXIF">> >>,
      <<31, "Win81", <<"Res16", "Res32", "Res48", "Res96", "Res256", "Res1024",
                       "Res1600", "SR", "Wide", "EXIF", "WideAlternate">> >>,
      <<32, "Win10", <<"Res16", "Res32", "Res48", "Res96", "Res256", "Res768",
                       "Res1280", "Res1920", "Res2560", "SR", "Wide", "EXIF",
                       "WideAlternate", "CustomStream">> >> }

\* the header was read whole and carries the check string
HeaderAccepted == pc # "start" /\ Len(buf) >= 32 /\ FirstFour = CMMM

\* the row of the table for the format_revision in the buffer, if any
SpecRows == {row \in SpecTable : Slice(buf, 4, 8) = Digits(row[1], 4)}

\* the type code in the buffer is code c
TypeCodeIs(c) == Slice(buf, 8, 12) = Digits(c, 4)

\* C9: behind the check string, format_revision 20/21/30/31/32 resolves to
\* WinVista/Win7/Win8/Win81/Win10 and every type code of the table to its
\* kind.
C9_HeaderTables ==
    HeaderAccepted =>
        \A row \in SpecRows :
            /\ windows_version = row[2]
            /\ \A c \in 0..(Len(row[3]) - 1) : TypeCodeIs(c) => cache_type = row[3][c + 1]

C9_Witness ==
    /\ HeaderAccepted
    /\ Slice(buf, 4, 8) = <<32, 0, 0, 0>>
    /\ TypeCodeIs(4)
    /\ windows_version = "Win10"
    /\ cache_type = "Res256"

\* C10: behind the check string, a type code outside the table leaves
\* cache_type None with the version set, an unknown format_revision leaves
\* both None, read() does not fail on either, and with the version unset
\* read() returns Ok(0) with no entry appended.
C10_UnknownCodesAreNoError ==
    HeaderAccepted =>
        /\ \A row \in SpecRows :
               (\A c \in 0..(Len(row[3]) - 1) : ~TypeCodeIs(c)) =>
                   /\ windows_version = row[2]
                   /\ cache_type = "None"
                   /\ (pc = "loop" \/ result.kind \in {"Ok", "IoError"})
        /\ SpecRows = {} =>
               /\ windows_version = "None"
               /\ cache_type = "None"
               /\ cache_entires = <<>>
               /\ pc = "done" => result = Ok(0)

\* read() is over on a second value opened over the bytes of a first one
BothRead == pc = "done" /\ earlier # NoRun

C12_WrittenFileIsPayload ==
    written.kind = "Ok" =>
        /\ written.path = IF written.file_path = "None"
                          THEN DefaultPath(written.entry.identifier_string)
                          ELSE written.file_path
        /\ written.path \in DOMAIN disk
        /\ disk[written.path] = written.entry.data

\* the step appends an entry to the list
AppendsEntry == pc = "loop" /\ Len(cache_entires') = Len(cache_entires) + 1

\* size - (56 + data_len + identifier_len + padding_len) of the record under
\* the cursor
DeclaredSkip == TrailingSkip(DeclaredSize, DeclaredDataLen, DeclaredIdLen, DeclaredPadLen)

\* C13: whenever read() appends the entry of a record that starts at p and
\* has trailing_skip >= 0, under the Vista or a modern version, the cursor
\* at the start of the next iteration is p + size.
C13_SizeAdvancesCursor ==
    [][(AppendsEntry /\ ~DeclaredSkip.overflow) =>
           pos' = Advance(pos, DeclaredSize)]_vars

\* the bytes of the buffer at 0-based offset a, n of them, <<>> if they are
\* not all there
BytesAt(a, n) == IF a + n <= Len(buf) THEN Slice(buf, a, a + n) ELSE <<>>

\* the three sections of the Vista record under the cursor lie in the buffer
VistaSectionsPresent ==
    /\ IsSmall(pos) /\ IsSmall(DeclaredIdLen) /\ IsSmall(DeclaredPadLen)
    /\ IsSmall(DeclaredDataLen)
    /\ Small(pos) + 56 + Small(DeclaredIdLen) + Small(DeclaredPadLen)
           + Small(DeclaredDataLen) <= Len(buf)

\* C14: the entry of a Vista record that starts at p has as identifier the
\* identifier_len bytes at p + 56, decoded, and as data the data_len bytes
\* at p + 56 + identifier_len + padding_len.
C14_VistaSectionOrder ==
    [][(AppendsEntry /\ windows_version = "WinVista") =>
           LET e == cache_entires'[Len(cache_entires')]
           IN  /\ VistaSectionsPresent
               /\ e.identifier_string =
                      Utf16Lossy(Utf16Units(BytesAt(Small(pos) + 56, Small(DeclaredIdLen))))
               /\ e.data = BytesAt(Small(pos) + 56 + Small(DeclaredIdLen)
                                     + Small(DeclaredPadLen), Small(DeclaredDataLen))]_vars

ModernVersions == {"Win7", "Win8", "Win81", "Win10"}

\* the entry the step appended
AppendedEntry == cache_entires'[Len(cache_entires')]

\* what the arm of version v does on the header and tail under the cursor
OutcomeUnder(v) == DecodeEntry(v, buf, build, temp_bytes, EntryHeaderRead.pos)

\* two entries that differ in their checksums at most
SameButChecksums(e, f) ==
    [e EXCEPT !.data_checksum = <<>>, !.header_checksum = <<>>]
        = [f EXCEPT !.data_checksum = <<>>, !.header_checksum = <<>>]

\* size, identifier_len, padding_len and data_len of an entry come from
\* bytes 4..8, 16..20, 20..24 and 24..28 of the header under the cursor
ModernLengthFields(e) ==
    /\ e.size = Field(temp_bytes, <<4, 8>>)
    /\ e.identifier_string_size = Field(temp_bytes, <<16, 20>>)
    /\ e.padding_size = Field(temp_bytes, <<20, 24>>)
    /\ e.data_size = Field(temp_bytes, <<24, 28>>)

ShortIdentifier ==
    /\ EntryHeaderWhole
    /\ EntryMagicIsCMMM
    /\ windows_version \in ModernVersions
    /\ ShortOf(DeclaredIdLen, EntryHeaderRead.pos)

\* C16: a record whose identifier is cut short by the end of the buffer
\* makes read() return Err(IoError), whatever its padding_len and data_len,
\* and no entry is appended for it.
C16_ShortIdentifierIsIoError ==
    [][ShortIdentifier =>
           /\ pc' = "done"
           /\ result' = IoError
           /\ cache_entires' = cache_entires]_vars

\* size >= 56 + data_size + identifier_string_size + padding_size of an
\* entry, the sum taken in the integers (by limbs: low part and high part)
SizeCoversSections(e) ==
    LET low == 56 + e.data_size[1] + e.identifier_string_size[1] + e.padding_size[1]
        high == e.data_size[2] + e.identifier_string_size[2] + e.padding_size[2]
                + low \div 65536
    IN  \/ e.size[2] > high
        \/ e.size[2] = high /\ e.size[1] >= low % 65536

\* C17: in every state of read() every entry of cache_entires has
\* size >= 56 + data_size + identifier_string_size + padding_size, with no
\* wraparound: size is that sum plus a trailing_skip >= 0.
C17_EntrySizesCoverSections ==
    \A i \in 1..Len(cache_entires) : SizeCoversSections(cache_entires[i])

\* the bytes between the cursor and the end of the buffer
Remaining == Len(buf) - ReadStart(buf, pos)

\* C18: at the top of an iteration with fewer than 56 bytes left behind the
\* cursor, whatever they are, read() stops and returns Ok with the count so
\* far, and appends nothing.
C18_ShortTailEndsScan ==
    [][(pc = "loop" /\ Remaining < 56) =>
           /\ pc' = "done"
           /\ result' = Ok(added_entries)
           /\ cache_entires' = cache_entires
           /\ added_entries' = added_entries]_vars

\* read() is over on a buffer that ends with the first 55 bytes of a
\* record, the check string among them
C18_Witness ==
    /\ pc = "done"
    /\ input.rev = 21
    /\ input.recs = <<"empty">>
    /\ input.cut = 1
    /\ Len(buf) = 32 + 55
    /\ Slice(buf, 32, 36) = CMMM
    /\ result = Ok(0)
    /\ cache_entires = <<>>

\* first_entry_offset as the buffer holds it, and 24 + first_entry_offset
\* taken on 64 bits, where it cannot overflow
FirstEntryOffset == FromBytes32(Slice(buf, 12, 16))
ScanStart == Add64(ToU64(U32(24)), ToU64(FirstEntryOffset))

\* C19: behind a header with the check string the scan starts at
\* 24 + first_entry_offset, with no 32-bit overflow, whatever the offset;
\* and if that is at or beyond the end of the buffer read() returns Ok(0)
\* with no entries and no fault.
C19_ScanStartsAtOffset ==
    [][/\ (pc = "start" /\ Len(buf) >= 32 /\ FirstFour = CMMM) =>
              /\ pc' = "loop"
              /\ pos' = ScanStart
              /\ result' = NoResult
       /\ (pc = "loop" /\ HeaderAccepted /\ ~LessThanLen(ScanStart, Len(buf))) =>
              /\ pc' = "done"
              /\ result' = Ok(0)
              /\ cache_entires' = <<>>]_vars

\* a < b for two u64
Less64(a, b) ==
    \E i \in 1..4 : a[i] < b[i] /\ \A j \in (i + 1)..4 : a[j] = b[j]

\* an iteration that decodes nothing and goes on: the entry magic is no
\* text, or it is the check string and no version is set
GoesOnUndecoded ==
    /\ pc = "loop"
    /\ LoopCondition
    /\ \/ ~EntryMagicIsText
       \/ EntryMagicIsCMMM /\ windows_version = "None"

\* C20: read() terminates on every buffer: from one iteration of the loop
\* to the next the cursor is strictly greater; an iteration that goes on
\* with the version unset or with no text in the entry magic has consumed
\* the 56-byte header; and every read() that runs comes to its end.
C20_ReadTerminates ==
    /\ [][(pc = "loop" /\ pc' = "loop") =>
              LessThanLen(pos, Len(buf)) /\ Less64(pos, pos')]_vars
    /\ [](GoesOnUndecoded => EntryHeaderRead.pos = Advance(pos, U32(56)))
    /\ (pc # "done" ~> pc = "done")

\* read() is over after iterations that found no version, or no text in
\* the entry magic, and went on
C20_Witness ==
    /\ pc = "done"
    /\ result.kind = "Ok"
    /\ Len(input.recs) = 2
    /\ \/ windows_version = "None" /\ input.recs[1] = "example"
       \/ input.recs[1] = "nottext" /\ Len(cache_entires) = 1

\* C21: in every step of the loop added_entries grows by exactly the number
\* of entries the step pushed, under every version, and a step that returns
\* Ok(n) returns the number of entries this call appended: on a fresh value,
\* the length of cache_entires.
C21_OkCountsPushes ==
    [][pc = "loop" =>
           /\ added_entries' - added_entries = Len(cache_entires') - Len(cache_entires)
           /\ (pc' = "done" /\ result'.kind = "Ok") =>
                  /\ result'.n = added_entries
                  /\ result'.n = Len(cache_entires')]_vars

\* read() returned Ok(2) after the WinVista arm pushed two entries
C21_Witness ==
    /\ pc = "done"
    /\ windows_version = "WinVista"
    /\ result = Ok(2)
    /\ added_entries = 2
    /\ Len(cache_entires) = 2

====
